---- MODULE Spec2Model ----
(***************************************************************************)
(* A model of github-artifact-downloader (src/main.py): the command-line   *)
(* entry point, the orchestrator download_artifacts, the run status poller *)
(* wait_for_workflow_completion, list_artifacts and download_zipfile, with *)
(* the remote API, the clock and the filesystem as the environment.        *)
(*                                                                         *)
(* Environment assumptions: the clock never runs backwards and a sleep of  *)
(* poll_interval seconds lasts at least poll_interval seconds; the program *)
(* is the only writer of the destination directory while it runs.          *)
(***************************************************************************)
EXTENDS Integers, Sequences, FiniteSets, TLC

VARIABLES
    pc,               \* control location of the single thread
    flatten,          \* not args.no_flatten
    wait,             \* not args.no_wait
    poll_interval,    \* args.poll_interval
    timeout,          \* args.timeout
    run,              \* the run dict fetched last, or NoRun
    clock,            \* time.time() - start_time inside the poller
    elapsed,          \* the poller's local variable elapsed
    data,             \* the "artifacts" array of the listing response
    artifacts,        \* the list returned by list_artifacts (names; the i-th url is i)
    idx,              \* position of the for loop over artifacts
    dirs,             \* directories under output_path (paths relative to it)
    disk,             \* regular files under output_path: path -> origin
    tmp_path,         \* the temporary downloaded archive
    temp_extract_dir, \* the temporary extraction directory
    temp_items,       \* entries of the archive lying in temp_extract_dir
    todo,             \* files of temp_extract_dir the flatten loop has not visited
    extracted_files,  \* download_zipfile's list extracted_files
    total_files,      \* download_artifacts' counter total_files
    trace,            \* history: requests, sleeps, timeout checks, notifications
    outcome,          \* "running", "Done", "Interrupted" or the fatal condition
    exit_code         \* the process exit code, NoCode while running

vars == <<pc, flatten, wait, poll_interval, timeout, run, clock, elapsed,
          data, artifacts, idx, dirs, disk, tmp_path, temp_extract_dir, temp_items,
          todo, extracted_files, total_files, trace, outcome, exit_code>>

----------------------------------------------------------------------------
(* Bounds of the model *)

MaxPollInterval == 2
MaxTimeout == 2
MaxLatency == 1
MaxArtifacts == 2
MaxEntries == 2

----------------------------------------------------------------------------
(* Values *)

None == "None"
NoRun == [status |-> "none", conclusion |-> None]
NoCode == -1
Absent == "absent"

Last(s) == s[Len(s)]

Max(S) == CHOOSE m \in S : \A x \in S : x <= m

\* Paths of the entries an archive may hold (directory components, base name).
EntryPaths ==
    { <<"run.log">>, <<"sub", "run.log">>, <<"run_1.log">>, <<".env">>,
      <<"artifact.zip">>, <<"sub", "artifact.zip">> }

Archives == {a \in SUBSET EntryPaths : Cardinality(a) <= MaxEntries}

\* What GET {archive_download_url} streams into tmp_path: nothing, bytes that
\* are no zip archive, or a zip archive with its entries.
Payloads ==
    {[kind |-> "empty", entries |-> {}], [kind |-> "corrupt", entries |-> {}]}
        \cup [kind : {"zip"}, entries : Archives]

\* The payloads of the runs that vary the timing: no archive has a wrapper or
\* two entries.
PlainPayloads == {p \in Payloads : p.entries \subseteq {<<"run.log">>}}

NoTmp == [state |-> Absent, kind |-> "none", entries |-> {}]
TmpFile(payload) ==
    [state |-> "exists", kind |-> payload.kind, entries |-> payload.entries]
Unlinked(tmp) ==
    IF tmp.state = "exists" THEN [tmp EXCEPT !.state = "removed"] ELSE tmp

\* What GET /repos/{repo}/actions/runs/{run_id} can answer: the conclusion is
\* null until the run is completed; a completed run with a null conclusion is
\* the case the orchestrator guards against.
RunResponses ==
    [status : {"queued", "in_progress"}, conclusion : {None}]
        \cup [status : {"completed"},
              conclusion : {"success", "failure", "cancelled", None}]

ArtifactNames == {"logs", "build"}

\* The "artifacts" array of the listing response: name and expired flag.
RemoteArtifact == [name : ArtifactNames, expired : {"true", "false", Absent}]

\* archive_download_url of the i-th artifact of the response: i.
RemoteListings ==
    UNION {[1..n -> RemoteArtifact] : n \in 0..MaxArtifacts}

\* The listings of the runs that vary the timing or the files: no artifact
\* has expired.
CurrentListings ==
    {raw \in RemoteListings : \A i \in DOMAIN raw : raw[i].expired = "false"}

\* Outcomes of requests.get + raise_for_status: the body, an HTTPError for a
\* non-2xx answer, or a ConnectionError (a RequestException that is no HTTPError).
HttpFailures == {"HTTPError", "ConnectionError"}

----------------------------------------------------------------------------
(* History *)

Count(ev) == Cardinality({i \in DOMAIN trace : trace[i] = ev})
CountKind(k) == Cardinality({i \in DOMAIN trace : trace[i][1] = k})

RunFetches == CountKind("run")
Sleeps == CountKind("sleep")
ListRequests == CountKind("list")
ArchiveRequests == CountKind("archive")

----------------------------------------------------------------------------
(* Exception handlers of main and of the module's entry point *)

\* Variant: the except Exception clause logs and falls off the end of the script.
TopLevelLogsOnly(exc) == 0

\* if __name__ == "__main__": KeyboardInterrupt exits 0, any Exception exits 1.
TopLevelHandler(exc) ==
    IF exc = "KeyboardInterrupt" THEN 0 ELSE 1

\* main(): except RuntimeError -> sys.exit(1); anything else goes on upwards.
\* requests' HTTPError and ConnectionError are OSErrors, not RuntimeErrors.
MainHandler(exc) ==
    IF exc = "RuntimeError" THEN 1 ELSE TopLevelHandler(exc)

\* sys.exit(code) or an exception that ended the process.
Exit(code, why) ==
    /\ pc' = "exit"
    /\ exit_code' = code
    /\ outcome' = why

Log(evs) == trace' = trace \o evs

\* What the history keeps of an answered run request.
Answer(resp) == IF resp.status = "completed" THEN "completed" ELSE "incomplete"

----------------------------------------------------------------------------
(* send_notification *)

\* plyer: not installed, notify() returned, notify() raised an Exception.
PlyerOutcomes == {"missing", "sent", "failed"}

\* platform.system()
Systems == {"Linux", "Other"}

\* subprocess.run(["notify-send", ...], check=True, timeout=5): it returned,
\* or raised; PermissionError is what exec gives for a notify-send on the
\* PATH that may not be executed.
NotifySendOutcomes ==
    {"sent", "FileNotFoundError", "CalledProcessError", "TimeoutExpired",
     "PermissionError"}

\* except (FileNotFoundError, CalledProcessError, TimeoutExpired)
CaughtNotifySendErrors ==
    {"FileNotFoundError", "CalledProcessError", "TimeoutExpired"}

NotifyEnvs ==
    [plyer : PlyerOutcomes, system : Systems, notify_send : NotifySendOutcomes]

\* How a call of send_notification ends: "returned", or the exception that
\* leaves it.
SendNotification(env) ==
    IF env.plyer = "sent" THEN "returned"
    ELSE IF env.system = "Linux"
    THEN IF env.notify_send = "sent" THEN "returned"
         ELSE IF env.notify_send \in CaughtNotifySendErrors THEN "returned"
         ELSE env.notify_send
    ELSE "returned"

----------------------------------------------------------------------------
(* The state after process start *)

\* Origin of a file that was in the destination before the process started.
Before(path) == <<0, path>>

\* The destination before the run: absent; holding run.log; holding run.log and
\* run_1.log; holding a non-empty logs/; holding an empty logs/.
InitDisks ==
    { <<{}, <<>>>>,
      <<{<<>>}, (<<"run.log">> :> Before(<<"run.log">>))>>,
      <<{<<>>}, (<<"run.log">> :> Before(<<"run.log">>))
                    @@ (<<"run_1.log">> :> Before(<<"run_1.log">>))>>,
      <<{<<>>, <<"logs">>}, (<<"logs", "old.txt">> :> Before(<<"logs", "old.txt">>))>>,
      <<{<<>>, <<"logs">>}, <<>>>> }

Start ==
    /\ pc = "main"
    /\ flatten \in BOOLEAN
    /\ wait \in BOOLEAN
    /\ run = NoRun
    /\ clock = 0
    /\ elapsed = 0
    /\ data = <<>>
    /\ artifacts = <<>>
    /\ idx = 0
    /\ tmp_path = NoTmp
    /\ temp_extract_dir = Absent
    /\ temp_items = {}
    /\ todo = {}
    /\ extracted_files = <<>>
    /\ total_files = 0
    /\ trace = <<>>
    /\ outcome = "running"
    /\ exit_code = NoCode

Init ==
    /\ Start
    /\ poll_interval \in 1..MaxPollInterval
    /\ timeout \in 0..MaxTimeout
    /\ dirs = {}
    /\ disk = <<>>

InitListings ==
    /\ Start
    /\ poll_interval = 1
    /\ timeout = 1
    /\ dirs = {}
    /\ disk = <<>>

InitFiles ==
    /\ Start
    /\ poll_interval = 1
    /\ timeout = 1
    /\ \E d \in InitDisks : dirs = d[1] /\ disk = d[2]

----------------------------------------------------------------------------
(* main: the positional arguments *)

CliInputs == {"url", "bad_url", "repo_run_id", "repo_only"}

ParseArgs ==
    /\ pc = "main"
    /\ \E input \in CliInputs :
        CASE input = "bad_url" ->
                \* parse_run_url raises ValueError: log, sys.exit(1)
                Exit(1, "BadUrl")
          [] input = "repo_only" ->
                Exit(1, "MissingRunId")
          [] OTHER ->
                /\ pc' = "token"
                /\ UNCHANGED <<exit_code, outcome>>
    /\ UNCHANGED <<flatten, wait, poll_interval, timeout, run, clock, elapsed,
                   data, artifacts, idx, dirs, disk, tmp_path, temp_extract_dir,
                   temp_items, todo, extracted_files, total_files, trace>>

(* download_artifacts: token is None -> get_github_token() *)

TokenSources == {"argument", "environment", "ghtoken", "missing"}

\* Variant: the destination directory is made as soon as its path is known.
OutputPathCreated(ds) == ds \cup {<<>>}

\* output_path = Path(output_dir): a path object, nothing is made on disk.
OutputPath(ds) == ds

ResolveToken ==
    /\ pc = "token"
    /\ \E src \in TokenSources :
        IF src = "missing"
        THEN /\ Exit(MainHandler("RuntimeError"), "MissingToken")
             /\ UNCHANGED dirs
        ELSE /\ dirs' = OutputPath(dirs)
             /\ pc' = "Fetching"
             /\ UNCHANGED <<exit_code, outcome>>
    /\ UNCHANGED <<flatten, wait, poll_interval, timeout, run, clock, elapsed,
                   data, artifacts, idx, disk, tmp_path, temp_extract_dir,
                   temp_items, todo, extracted_files, total_files, trace>>

(* download_artifacts: the initial run fetch and the decision to wait *)

FetchHandler(exc) ==
    IF exc = "HTTPError" THEN 1 ELSE MainHandler(exc)

\* Variant: if wait
ShouldWaitAlways(w, status) == w

\* if wait and run.get("status") != "completed"
ShouldWait(w, status) == w /\ status # "completed"

FetchRun ==
    /\ pc = "Fetching"
    /\ \/ \E exc \in HttpFailures :
            /\ Log(<< <<"run", "initial", "failed">> >>)
            /\ Exit(FetchHandler(exc), "TransportFailure")
            /\ UNCHANGED <<run, clock, elapsed>>
       \/ \E resp \in RunResponses :
            /\ Log(<< <<"run", "initial", Answer(resp)>> >>)
            /\ run' = resp
            /\ IF ShouldWait(wait, resp.status)
               THEN \* start_time = time.time(); elapsed = 0.0
                    /\ pc' = "Waiting"
                    /\ clock' = 0
                    /\ elapsed' = 0
               ELSE /\ pc' = "Verifying"
                    /\ UNCHANGED <<clock, elapsed>>
            /\ UNCHANGED <<exit_code, outcome>>
    /\ UNCHANGED <<flatten, wait, poll_interval, timeout, data, artifacts, idx, dirs,
                   disk, tmp_path, temp_extract_dir, temp_items, todo,
                   extracted_files, total_files>>

(* wait_for_workflow_completion: one iteration up to the sleep *)

\* download_artifacts catches RuntimeError around the poller and exits 1;
\* the HTTPError the poller re-raises is not a RuntimeError.
WaitHandler(exc) ==
    IF exc = "RuntimeError" THEN 1 ELSE MainHandler(exc)

\* Variant: the timeout taken for minutes, as the notification text does.
TimedOutMinutes(e, t) == e >= t * 60

\* Variant: if elapsed > timeout
TimedOutStrict(e, t) == e > t

\* if elapsed >= timeout
TimedOut(e, t) == e >= t

PollFetch ==
    /\ pc = "Waiting"
    /\ \/ \E exc \in HttpFailures :
            /\ Log(<< <<"run", "poll", "failed">> >>)
            /\ Exit(WaitHandler(exc), "TransportFailure")
            /\ UNCHANGED <<run, clock, elapsed>>
       \/ \E resp \in RunResponses, d \in 0..MaxLatency :
            /\ clock' = clock + d
            /\ IF resp.status = "completed"
               THEN /\ run' = resp
                    /\ pc' = "Verifying"
                    /\ Log(<< <<"run", "poll", Answer(resp)>> >>)
                    /\ UNCHANGED <<elapsed, exit_code, outcome>>
               ELSE /\ elapsed' = clock'
                    /\ UNCHANGED run
                    /\ IF TimedOut(elapsed', timeout)
                       THEN /\ Log(<< <<"run", "poll", Answer(resp)>>,
                                      <<"timeout_check">>,
                                      <<"notify", "timeout">> >>)
                            /\ \E env \in NotifyEnvs :
                                IF SendNotification(env) = "returned"
                                THEN Exit(WaitHandler("RuntimeError"),
                                          "Timeout")
                                ELSE Exit(WaitHandler(SendNotification(env)),
                                          "NotificationFailure")
                       ELSE /\ Log(<< <<"run", "poll", Answer(resp)>>,
                                      <<"timeout_check">> >>)
                            /\ pc' = "Sleeping"
                            /\ UNCHANGED <<exit_code, outcome>>
    /\ UNCHANGED <<flatten, wait, poll_interval, timeout, data, artifacts, idx, dirs,
                   disk, tmp_path, temp_extract_dir, temp_items, todo,
                   extracted_files, total_files>>

\* time.sleep(poll_interval) returns after at least poll_interval seconds.
Sleep ==
    /\ pc = "Sleeping"
    /\ \E late \in 0..MaxLatency : clock' = clock + poll_interval + late
    /\ Log(<< <<"sleep">> >>)
    /\ pc' = "Waiting"
    /\ UNCHANGED <<flatten, wait, poll_interval, timeout, run, elapsed,
                   data, artifacts, idx, dirs, disk, tmp_path, temp_extract_dir,
                   temp_items, todo, extracted_files, total_files, outcome,
                   exit_code>>

(* download_artifacts: the conclusion check *)

\* Variant: if conclusion != "failure"
SucceededUnlessFailure(conclusion) == conclusion # "failure"

\* if conclusion == "success"
Succeeded(conclusion) == conclusion = "success"

Verify ==
    /\ pc = "Verifying"
    /\ IF Succeeded(run.conclusion)
       THEN /\ Log(<< <<"notify", "success">> >>)
            /\ \E env \in NotifyEnvs :
                IF SendNotification(env) = "returned"
                THEN /\ pc' = "Listing"
                     /\ UNCHANGED <<exit_code, outcome>>
                ELSE Exit(MainHandler(SendNotification(env)),
                          "NotificationFailure")
       ELSE IF run.conclusion # None
       THEN /\ Log(<< <<"notify", "failure">> >>)
            /\ \E env \in NotifyEnvs :
                IF SendNotification(env) = "returned"
                THEN Exit(1, "UnsuccessfulConclusion")
                ELSE Exit(MainHandler(SendNotification(env)),
                          "NotificationFailure")
       ELSE /\ Exit(1, "UnknownConclusion")
            /\ UNCHANGED trace
    /\ UNCHANGED <<flatten, wait, poll_interval, timeout, run, clock, elapsed,
                   data, artifacts, idx, dirs, disk, tmp_path, temp_extract_dir,
                   temp_items, todo, extracted_files, total_files>>

(* list_artifacts and the empty-list check of download_artifacts *)

\* Variant: only an artifact whose expired flag is present and false is kept.
RECURSIVE FilterExpiredStrict(_, _)
FilterExpiredStrict(raw, i) ==
    IF i > Len(raw) THEN <<>>
    ELSE (IF raw[i].expired = "false" THEN << <<raw[i].name, i>> >> ELSE <<>>)
            \o FilterExpiredStrict(raw, i + 1)

\* for artifact in data.get("artifacts", []): if not artifact.get("expired",
\* False): artifacts.append((name, download_url))
RECURSIVE FilterExpired(_, _)
FilterExpired(raw, i) ==
    IF i > Len(raw) THEN <<>>
    ELSE (IF raw[i].expired = "true" THEN <<>> ELSE << <<raw[i].name, i>> >>)
            \o FilterExpired(raw, i + 1)

ListHandler(exc) ==
    IF exc = "HTTPError" THEN 1 ELSE MainHandler(exc)

\* Variant: an empty list is not an error.
NothingToDownloadNever(arts) == FALSE

\* if not artifacts
NothingToDownload(arts) == arts = <<>>

\* Variant: the loop starts at the end of the list.
FirstIndexLast(arts) == Len(arts)

\* for name, download_url in artifacts: the loop starts at the head of the list.
FirstIndex(arts) == 1

ListArtifacts(listings) ==
    /\ pc = "Listing"
    /\ \/ \E exc \in HttpFailures :
            /\ Log(<< <<"list", "failed">> >>)
            /\ Exit(ListHandler(exc), "TransportFailure")
            /\ UNCHANGED <<data, artifacts, idx, total_files>>
       \/ \E raw \in listings :
            /\ Log(<< <<"list", "answered">> >>)
            /\ data' = raw
            /\ artifacts' = FilterExpired(raw, 1)
            /\ IF NothingToDownload(artifacts')
               THEN /\ Exit(1, "NoArtifacts")
                    /\ UNCHANGED <<idx, total_files>>
               ELSE /\ pc' = "Downloading"
                    /\ idx' = FirstIndex(artifacts')
                    /\ total_files' = 0
                    /\ UNCHANGED <<exit_code, outcome>>
    /\ UNCHANGED <<flatten, wait, poll_interval, timeout, run, clock, elapsed,
                   dirs, disk, tmp_path, temp_extract_dir, temp_items, todo,
                   extracted_files>>

----------------------------------------------------------------------------
(* Path arithmetic of download_zipfile *)

WrapperName == "artifact.zip"

\* Position of the last "." of name, 0 when there is none (str.rfind + 1).
LastDot(name) ==
    LET dots == {i \in 1..Len(name) : SubSeq(name, i, i) = "."}
    IN  IF dots = {} THEN 0 ELSE Max(dots)

\* Path.suffix: from the last dot on, unless that dot is the first or the
\* last character of the name.
Suffix(name) ==
    LET i == LastDot(name)
    IN  IF 1 < i /\ i < Len(name) THEN SubSeq(name, i, Len(name)) ELSE ""

\* Path.stem: the name without its suffix.
Stem(name) ==
    LET i == LastDot(name)
    IN  IF 1 < i /\ i < Len(name) THEN SubSeq(name, 1, i - 1) ELSE name

Digit(d) ==
    CASE d = 0 -> "0" [] d = 1 -> "1" [] d = 2 -> "2" [] d = 3 -> "3"
      [] d = 4 -> "4" [] d = 5 -> "5" [] d = 6 -> "6" [] d = 7 -> "7"
      [] d = 8 -> "8" [] d = 9 -> "9"

\* The decimal text the f-string gives for counter.
RECURSIVE Str(_)
Str(n) == IF n < 10 THEN Digit(n) ELSE Str(n \div 10) \o Digit(n % 10)

\* dest.exists() for dest = output_dir / name: a file or a directory.
ExistsIn(dir, name) ==
    \/ Append(dir, name) \in DOMAIN disk
    \/ Append(dir, name) \in dirs

\* while dest.exists(): dest = output_dir / f"{base}_{counter}{ext}"; counter += 1
RECURSIVE NextFree(_, _, _, _)
NextFree(dir, base, ext, counter) ==
    LET cand == base \o "_" \o Str(counter) \o ext
    IN  IF ExistsIn(dir, cand) THEN NextFree(dir, base, ext, counter + 1)
        ELSE cand

\* Variant: no conflict handling, dest = output_dir / item.name.
ResolveDestOverwrite(dir, name) == name

\* The name a flattened file gets in output_dir.
ResolveDest(dir, name) ==
    IF ExistsIn(dir, name)
    THEN NextFree(dir, Stem(name), Suffix(name), 1)
    ELSE name

\* Variant: only the wrapper at the root of the archive is skipped.
IsWrapperAtRoot(item) == item = <<WrapperName>>

\* if item.name == "artifact.zip": continue
IsWrapper(item) == Last(item) = WrapperName

\* The directories extractall makes for the entry rel below dir.
Parents(dir, rel) == {dir \o SubSeq(rel, 1, k) : k \in 0..(Len(rel) - 1)}

\* output_dir.mkdir(parents=True, exist_ok=True)
Mkdir(dir) == {SubSeq(dir, 1, k) : k \in 0..Len(dir)}

IsPrefix(d, p) == Len(d) <= Len(p) /\ SubSeq(p, 1, Len(d)) = d

\* Variant: a subdirectory is never taken to hold anything.
NonEmptyNever(dir) == FALSE

\* Variant: the skip looks only at artifact_dir.exists().
NonEmptyAlways(dir) == TRUE

\* any(artifact_dir.iterdir())
NonEmpty(dir) ==
    \/ \E p \in DOMAIN disk : IsPrefix(dir, p)
    \/ \E d \in dirs : d # dir /\ IsPrefix(dir, d)

----------------------------------------------------------------------------
(* download_artifacts: the loop over the listed artifacts *)

\* Variant: a bare except clause around download_zipfile.
DownloadHandlerBare(exc) == 1

\* except Exception around download_zipfile: log, sys.exit(1).
\* KeyboardInterrupt is no Exception and goes on upwards.
DownloadHandler(exc) ==
    IF exc # "KeyboardInterrupt" THEN 1 ELSE MainHandler(exc)

\* artifact_dir: output_path when flattening, output_path / name otherwise.
ArtifactDir(i) == IF flatten THEN <<>> ELSE <<artifacts[i][1]>>

\* download_zipfile returned files: count them and go to the next artifact.
Returned(files) ==
    /\ extracted_files' = files
    /\ total_files' = total_files + Len(files)
    /\ idx' = idx + 1
    /\ pc' = "Downloading"
    /\ UNCHANGED <<exit_code, outcome>>

\* Variant: the except clause logs the error and goes on with the next artifact.
RaisedContinue(exc, why, evs) ==
    /\ tmp_path' = Unlinked(tmp_path)
    /\ Log(evs \o << <<"failed", idx>> >>)
    /\ idx' = idx + 1
    /\ pc' = "Downloading"
    /\ UNCHANGED <<total_files, exit_code, outcome>>

\* download_zipfile raised exc after the requests evs: its finally clause
\* unlinks tmp_path, download_artifacts logs the failure and exits.
Raised(exc, why, evs) ==
    /\ tmp_path' = Unlinked(tmp_path)
    /\ Log(evs \o << <<"failed", idx>> >>)
    /\ Exit(DownloadHandler(exc), why)
    /\ UNCHANGED <<idx, total_files>>

\* The head of the loop: the end of the list, the skip of an artifact that is
\* already there, or the first lines of download_zipfile (mkdir, temp file).
NextArtifact ==
    /\ pc = "Downloading"
    /\ IF idx > Len(artifacts)
       THEN /\ Exit(0, "Done")
            /\ UNCHANGED <<idx, dirs, tmp_path, temp_extract_dir, temp_items,
                           extracted_files>>
       ELSE IF ~flatten /\ ArtifactDir(idx) \in dirs /\ NonEmpty(ArtifactDir(idx))
       THEN /\ idx' = idx + 1
            /\ UNCHANGED <<pc, exit_code, outcome, dirs, tmp_path,
                           temp_extract_dir, temp_items, extracted_files>>
       ELSE /\ dirs' = dirs \cup Mkdir(ArtifactDir(idx))
            /\ tmp_path' = TmpFile([kind |-> "empty", entries |-> {}])
            /\ temp_extract_dir' = Absent
            /\ temp_items' = {}
            /\ extracted_files' = <<>>
            /\ pc' = "dz_request"
            /\ UNCHANGED <<idx, exit_code, outcome>>
    /\ UNCHANGED <<flatten, wait, poll_interval, timeout, run, clock, elapsed,
                   data, artifacts, disk, todo, total_files, trace>>

----------------------------------------------------------------------------
(* download_zipfile *)

\* requests.get, raise_for_status, or iter_content while streaming.
DownloadFailures == HttpFailures \cup {"ChunkedEncodingError"}

\* Variant: no check of the size of the downloaded file.
IsEmptyDownloadNever(payload) == FALSE

\* if tmp_path.stat().st_size == 0
IsEmptyDownload(payload) == payload.kind = "empty"

\* The download: a failure, a zero-byte file (return []), or an archive.
DzRequest(payloads) ==
    /\ pc = "dz_request"
    /\ \/ \E exc \in DownloadFailures :
            /\ Raised(exc, "TransportFailure", << <<"archive", idx>> >>)
            /\ UNCHANGED extracted_files
       \/ \E payload \in payloads :
            /\ Log(<< <<"archive", idx>> >>)
            /\ IF IsEmptyDownload(payload)
               THEN /\ tmp_path' = Unlinked(tmp_path)
                    /\ Returned(<<>>)
               ELSE /\ tmp_path' = TmpFile(payload)
                    /\ pc' = "dz_extract"
                    /\ UNCHANGED <<idx, total_files, extracted_files,
                                   exit_code, outcome>>
    /\ UNCHANGED <<flatten, wait, poll_interval, timeout, run, clock, elapsed,
                   data, artifacts, dirs, disk, temp_extract_dir, temp_items, todo>>

\* ZipFile(tmp_path), tempfile.mkdtemp(), zf.extractall(temp_extract_dir).
DzExtract ==
    /\ pc = "dz_extract"
    /\ IF tmp_path.kind # "zip"
       THEN /\ Raised("BadZipFile", "ExtractionFailure", <<>>)
            /\ UNCHANGED <<temp_extract_dir, temp_items, todo>>
       ELSE /\ temp_extract_dir' = "exists"
            /\ \/ /\ temp_items' = tmp_path.entries
                  /\ todo' = IF flatten THEN tmp_path.entries ELSE {}
                  /\ pc' = IF flatten THEN "dz_flatten" ELSE "dz_extract_out"
                  /\ UNCHANGED <<tmp_path, idx, total_files, exit_code, outcome,
                                 trace>>
               \/ \E part \in (SUBSET tmp_path.entries) \ {tmp_path.entries} :
                  /\ temp_items' = part
                  /\ Raised("BadZipFile", "ExtractionFailure", <<>>)
                  /\ UNCHANGED todo
    /\ UNCHANGED <<flatten, wait, poll_interval, timeout, run, clock, elapsed,
                   data, artifacts, dirs, disk, extracted_files>>

\* shutil.move(item, dest): dest is replaced when it is an existing file.
Moved(dest, origin) ==
    [p \in DOMAIN disk \cup {dest} |-> IF p = dest THEN origin ELSE disk[p]]

\* One round of the loop over temp_extract_dir.rglob("*"), in the order the
\* filesystem lists the files.
DzMove ==
    /\ pc = "dz_flatten"
    /\ \E item \in todo :
        /\ todo' = todo \ {item}
        /\ IF IsWrapper(item)
           THEN UNCHANGED <<disk, temp_items, extracted_files, tmp_path, pc,
                            idx, total_files, exit_code, outcome, trace>>
           ELSE LET dest == Append(ArtifactDir(idx),
                                   ResolveDest(ArtifactDir(idx), Last(item)))
                IN  \/ /\ disk' = Moved(dest, <<idx, item>>)
                       /\ temp_items' = temp_items \ {item}
                       /\ extracted_files' = Append(extracted_files, dest)
                       /\ UNCHANGED <<tmp_path, pc, idx, total_files,
                                      exit_code, outcome, trace>>
                    \/ /\ Raised("OSError", "ExtractionFailure", <<>>)
                       /\ UNCHANGED <<disk, temp_items, extracted_files>>
    /\ UNCHANGED <<flatten, wait, poll_interval, timeout, run, clock, elapsed,
                   data, artifacts, dirs, temp_extract_dir>>

\* The loop is over: shutil.rmtree(temp_extract_dir), finally, return.
DzFlattenDone ==
    /\ pc = "dz_flatten"
    /\ todo = {}
    /\ temp_extract_dir' = "removed"
    /\ temp_items' = {}
    /\ tmp_path' = Unlinked(tmp_path)
    /\ Returned(extracted_files)
    /\ UNCHANGED <<flatten, wait, poll_interval, timeout, run, clock, elapsed,
                   data, artifacts, dirs, disk, todo, trace>>

\* zf.extractall(output_dir) writes every entry of the set, replacing files.
Extracted(dir, entries) ==
    [p \in DOMAIN disk \cup {dir \o e : e \in entries} |->
        IF \E e \in entries : p = dir \o e
        THEN <<idx, CHOOSE e \in entries : p = dir \o e>>
        ELSE disk[p]]

\* The order in which the filesystem lists a set of files.
Listed(S) ==
    CHOOSE f \in [1..Cardinality(S) -> S] :
        \A i, j \in DOMAIN f : f[i] = f[j] => i = j

\* for item in output_dir.rglob("*"): the regular files, without the wrapper.
Recorded(dir, files) ==
    {p \in DOMAIN files : IsPrefix(dir, p) /\ Last(p) # WrapperName}

\* Not flattening: extractall into output_dir, the list of its files, rmtree,
\* finally, return.
DzExtractOut ==
    /\ pc = "dz_extract_out"
    /\ LET dir == ArtifactDir(idx) IN
       \/ /\ disk' = Extracted(dir, tmp_path.entries)
          /\ dirs' = dirs \cup UNION {Parents(dir, e) : e \in tmp_path.entries}
          /\ temp_extract_dir' = "removed"
          /\ temp_items' = {}
          /\ tmp_path' = Unlinked(tmp_path)
          /\ Returned(Listed(Recorded(dir, disk')))
          /\ UNCHANGED trace
       \/ \E part \in (SUBSET tmp_path.entries) \ {tmp_path.entries} :
          /\ disk' = Extracted(dir, part)
          /\ dirs' = dirs \cup UNION {Parents(dir, e) : e \in part}
          /\ Raised("BadZipFile", "ExtractionFailure", <<>>)
          /\ UNCHANGED <<temp_extract_dir, temp_items, extracted_files>>
    /\ UNCHANGED <<flatten, wait, poll_interval, timeout, run, clock, elapsed,
                   data, artifacts, todo>>

----------------------------------------------------------------------------
(* Ctrl+C *)

DzLocations == {"dz_request", "dz_extract", "dz_flatten", "dz_extract_out"}

\* The handlers a KeyboardInterrupt passes on its way up from pc.
InterruptHandler(at) ==
    CASE at = "Fetching" -> FetchHandler("KeyboardInterrupt")
      [] at \in {"Waiting", "Sleeping"} -> WaitHandler("KeyboardInterrupt")
      [] at = "Listing" -> ListHandler("KeyboardInterrupt")
      [] at \in DzLocations -> DownloadHandler("KeyboardInterrupt")
      [] OTHER -> MainHandler("KeyboardInterrupt")

Interrupt ==
    /\ pc # "exit"
    /\ tmp_path' = IF pc \in DzLocations THEN Unlinked(tmp_path) ELSE tmp_path
    /\ Exit(InterruptHandler(pc), "Interrupted")
    /\ UNCHANGED <<flatten, wait, poll_interval, timeout, run, clock, elapsed,
                   data, artifacts, idx, dirs, disk, temp_extract_dir, temp_items,
                   todo, extracted_files, total_files, trace>>

----------------------------------------------------------------------------

Next ==
    \/ ParseArgs
    \/ ResolveToken
    \/ FetchRun
    \/ PollFetch
    \/ Sleep
    \/ Verify
    \/ ListArtifacts(CurrentListings)
    \/ NextArtifact
    \/ DzRequest(PlainPayloads)
    \/ DzExtract
    \/ DzMove
    \/ DzFlattenDone
    \/ DzExtractOut
    \/ Interrupt

\* Every timing, flag and response of the run service; plain archives and
\* listings without expired artifacts.
Spec == Init /\ [][Next]_vars

\* Spec, with every status fetch of the poller answering or failing and
\* every sleep returning.
SpecLive == Spec /\ WF_vars(PollFetch) /\ WF_vars(Sleep)

NextListings ==
    \/ ParseArgs
    \/ ResolveToken
    \/ FetchRun
    \/ PollFetch
    \/ Sleep
    \/ Verify
    \/ ListArtifacts(RemoteListings)
    \/ NextArtifact
    \/ DzRequest(PlainPayloads)
    \/ DzExtract
    \/ DzMove
    \/ DzFlattenDone
    \/ DzExtractOut
    \/ Interrupt

\* Every listing response; one poll interval and one timeout, plain archives.
SpecListings == InitListings /\ [][NextListings]_vars

NextFiles ==
    \/ ParseArgs
    \/ ResolveToken
    \/ FetchRun
    \/ PollFetch
    \/ Sleep
    \/ Verify
    \/ ListArtifacts(CurrentListings)
    \/ NextArtifact
    \/ DzRequest(Payloads)
    \/ DzExtract
    \/ DzMove
    \/ DzFlattenDone
    \/ DzExtractOut
    \/ Interrupt

\* Every archive and every destination; one poll interval and one timeout,
\* listings without expired artifacts.
SpecFiles == InitFiles /\ [][NextFiles]_vars

----------------------------------------------------------------------------
(* Properties *)

NotifyCount(kind) == Count(<<"notify", kind>>)
TimeoutChecks == CountKind("timeout_check")
Requested(i) == Count(<<"archive", i>>)
LastEvent == trace[Len(trace)]

\* Files of the destination that came out of a downloaded archive.
FromArchive == {p \in DOMAIN disk : disk[p][1] >= 1}

\* C1: the artifacts are listed, and archives requested, only when the run
\* fetched last concluded with success; with any other conclusion, or none,
\* the process ends with exit code 1 and has made no listing and no archive
\* request.
C1_ListingOnlyAfterSuccess ==
    /\ (ListRequests > 0 \/ ArchiveRequests > 0) => run.conclusion = "success"
    /\ pc \in {"Listing", "Downloading"} \cup DzLocations
            => run.conclusion = "success"
    /\ (pc = "exit" /\ outcome # "Interrupted" /\ run # NoRun
            /\ run.conclusion # "success")
            => exit_code = 1 /\ ListRequests = 0 /\ ArchiveRequests = 0

C1_Witness ==
    /\ pc = "exit"
    /\ run.status = "completed"
    /\ run.conclusion = "cancelled"
    /\ NotifyCount("failure") = 1
    /\ exit_code = 1
    /\ ListRequests = 0

\* C2: once download_zipfile has returned or raised, neither the temporary
\* archive nor the temporary extraction directory exists any more.
C2_TempFilesRemoved ==
    (pc \notin DzLocations /\ outcome # "Interrupted")
        => tmp_path.state # "exists" /\ temp_extract_dir # "exists"

\* The name the k-th attempt at a free name gives.
Renamed(name, k) == Stem(name) \o "_" \o Str(k) \o Suffix(name)

\* C3: when flattening, a step keeps every file of the destination as it is;
\* a file it adds lies in the destination itself under its base name when that
\* name was free, and otherwise under <stem>_k<ext> for the smallest k >= 1
\* whose name was free; every file that leaves the temporary directory without
\* being the wrapper is in the destination afterwards, each under its own name.
C3_FlattenKeepsBoth ==
    [][flatten =>
        /\ \A p \in DOMAIN disk : p \in DOMAIN disk' /\ disk'[p] = disk[p]
        /\ \A p \in DOMAIN disk' \ DOMAIN disk :
            LET name == Last(disk'[p][2])
                taken(n) == <<n>> \in DOMAIN disk \/ <<n>> \in dirs
            IN  /\ Len(p) = 1
                /\ IF ~taken(name) THEN p[1] = name
                   ELSE \E k \in 1..(Cardinality(DOMAIN disk) + 1) :
                            /\ p[1] = Renamed(name, k)
                            /\ ~taken(Renamed(name, k))
                            /\ \A j \in 1..(k - 1) : taken(Renamed(name, j))
        /\ \A item \in temp_items \ temp_items' :
            (pc' # "exit" /\ Last(item) # "artifact.zip")
                => \E p \in DOMAIN disk' : disk'[p] = <<idx, item>>
        /\ \A p, q \in DOMAIN disk' : disk'[p] = disk'[q] => p = q
    ]_vars

C3_Witness ==
    /\ flatten
    /\ {<<"run.log">>, <<"run_1.log">>, <<"run_2.log">>, <<"run_3.log">>}
            \subseteq DOMAIN disk
    /\ disk[<<"run.log">>] = Before(<<"run.log">>)
    /\ disk[<<"run_1.log">>][1] = 1
    /\ disk[<<"run_2.log">>][1] = 2
    /\ disk[<<"run_3.log">>][1] = 2

\* C4: when flattening, no entry named artifact.zip, at any depth of an
\* archive, gets into the destination or into the list of extracted files.
C4_WrapperNeverFlattened ==
    flatten =>
        /\ \A p \in FromArchive :
            Last(disk[p][2]) # "artifact.zip" /\ Last(p) # "artifact.zip"
        /\ \A i \in DOMAIN extracted_files :
            /\ Last(extracted_files[i]) # "artifact.zip"
            /\ extracted_files[i] \in FromArchive

C4_Witness ==
    /\ flatten
    /\ pc = "Downloading"
    /\ tmp_path.entries = {<<"sub", "artifact.zip">>, <<"run.log">>}
    /\ extracted_files = << <<"run.log">> >>
    /\ temp_extract_dir = "removed"

\* C5: without flattening, after a run that ends Done every file that came out
\* of an archive lies under destination_dir/<artifact name>/ at its path in
\* the archive, and none of them is named artifact.zip.
C5_SubdirWithoutWrapper ==
    (~flatten /\ outcome = "Done") =>
        \A p \in FromArchive :
            /\ p = <<artifacts[disk[p][1]][1]>> \o disk[p][2]
            /\ Last(p) # "artifact.zip"

\* C6: a failed fetch-and-extract of the artifact at position i is the last
\* thing the run does: the process has ended with exit code 1, the archive at
\* i was requested once, and no archive after i was requested; no archive is
\* ever requested twice.
C6_FailureAborts ==
    /\ \A i \in DOMAIN trace :
        trace[i][1] = "failed" =>
            /\ i = Len(trace)
            /\ pc = "exit" /\ exit_code = 1
            /\ trace[i][2] = idx
            /\ Requested(idx) = 1
            /\ \A j \in DOMAIN artifacts : j > idx => Requested(j) = 0
    /\ \A j \in DOMAIN artifacts : Requested(j) <= 1

C6_Witness ==
    /\ pc = "exit"
    /\ Len(artifacts) = 2
    /\ trace # <<>> /\ LastEvent = <<"failed", 1>>
    /\ outcome = "ExtractionFailure"
    /\ Requested(2) = 0

C8_NoPollWhenCompleted ==
    (trace # <<>> /\ trace[1] = <<"run", "initial", "completed">>) =>
        /\ RunFetches = 1
        /\ Sleeps = 0
        /\ TimeoutChecks = 0
        /\ pc \notin {"Waiting", "Sleeping"}

C8_Witness ==
    /\ wait
    /\ trace # <<>> /\ trace[1] = <<"run", "initial", "completed">>
    /\ outcome = "Done"
    /\ RunFetches = 1

\* C9: a failed status fetch of the poller is the last thing the run does:
\* no fetch, sleep or timeout notification follows it, nothing is listed or
\* downloaded, and the process ends with exit code 1.
C9_PollErrorNotRetried ==
    \A i \in DOMAIN trace :
        trace[i] = <<"run", "poll", "failed">> =>
            /\ i = Len(trace)
            /\ pc = "exit" /\ exit_code = 1
            /\ NotifyCount("timeout") = 0
            /\ ListRequests = 0 /\ ArchiveRequests = 0

C9_Witness ==
    /\ pc = "exit"
    /\ trace # <<>> /\ LastEvent = <<"run", "poll", "failed">>
    /\ Sleeps >= 1
    /\ outcome = "TransportFailure"

FatalConditions ==
    {"BadUrl", "MissingRunId", "MissingToken", "TransportFailure", "Timeout",
     "UnsuccessfulConclusion", "UnknownConclusion", "NoArtifacts",
     "ExtractionFailure", "NotificationFailure"}

\* C10: the process ends with exit code 0 exactly when the orchestrator
\* reached Done or the user interrupted it, and with exit code 1 on every
\* fatal condition.
C10_ExitCodes ==
    /\ pc # "exit" => exit_code = NoCode /\ outcome = "running"
    /\ pc = "exit" =>
        /\ outcome \in FatalConditions \cup {"Done", "Interrupted"}
        /\ exit_code = 0 <=> outcome \in {"Done", "Interrupted"}
        /\ outcome \in FatalConditions => exit_code = 1

C10_Witness ==
    /\ pc = "exit"
    /\ outcome = "Interrupted"
    /\ temp_extract_dir = "exists"
    /\ exit_code = 0

\* The first answer of the run service found the run not completed.
InitiallyIncomplete ==
    trace # <<>> /\ trace[1] = <<"run", "initial", "incomplete">>

\* C11: with waiting disabled the run makes its one status fetch, never
\* sleeps and never polls, and when that fetch finds the run not completed it
\* still goes on to request the artifact listing.
C11_NoWaitDownloads ==
    (~wait /\ InitiallyIncomplete) =>
        /\ RunFetches = 1
        /\ Sleeps = 0
        /\ pc \notin {"Waiting", "Sleeping"}
        /\ (pc = "exit" /\ outcome # "Interrupted") => ListRequests = 1

\* Something lies below destination_dir/<name>.
Occupied(name) ==
    \/ \E p \in DOMAIN disk : Len(p) >= 2 /\ p[1] = name
    \/ \E d \in dirs : Len(d) >= 2 /\ d[1] = name

\* C12: without flattening, the step that reaches an artifact whose
\* subdirectory exists and holds something goes on to the next artifact
\* without a request, without touching the disk and without ending the
\* process; when the subdirectory exists and is empty the step starts the
\* download instead.
C12_SkipExisting ==
    [][(/\ ~flatten
        /\ pc = "Downloading"
        /\ idx <= Len(artifacts)
        /\ <<artifacts[idx][1]>> \in dirs
        /\ outcome' # "Interrupted")
       => IF Occupied(artifacts[idx][1])
          THEN /\ idx' = idx + 1
               /\ pc' = "Downloading"
               /\ disk' = disk /\ dirs' = dirs
               /\ trace' = trace
               /\ total_files' = total_files
               /\ exit_code' = NoCode
          ELSE /\ idx' = idx
               /\ pc' = "dz_request"
    ]_vars

C12_Witness ==
    /\ ~flatten
    /\ outcome = "Done" /\ exit_code = 0
    /\ Len(artifacts) = 2
    /\ artifacts[1][1] = "logs" /\ artifacts[2][1] = "build"
    /\ Requested(1) = 0 /\ Requested(2) = 1
    /\ DOMAIN disk = {<<"logs", "old.txt">>, <<"build", "run.log">>}
    /\ disk[<<"logs", "old.txt">>] = Before(<<"logs", "old.txt">>)

\* The loop reaches an artifact whose subdirectory exists and is empty.
C12_WitnessEmptyDir ==
    /\ ~flatten
    /\ pc = "Downloading" /\ idx = 1
    /\ artifacts[1][1] = "logs"
    /\ <<"logs">> \in dirs
    /\ ~Occupied("logs")

\* The listing request was answered.
ListingAnswered == Count(<<"list", "answered">>) = 1

\* C13: when the listing response holds no artifact that is not expired,
\* list_artifacts has returned the empty list, and the process has ended with
\* the no-artifacts error, exit code 1 and no archive request.
C13_EmptyListingFails ==
    (ListingAnswered /\ \A i \in DOMAIN data : data[i].expired = "true") =>
        /\ artifacts = <<>>
        /\ pc = "exit"
        /\ outcome = "NoArtifacts"
        /\ exit_code = 1
        /\ ArchiveRequests = 0
        /\ LastEvent = <<"list", "answered">>

C13_Witness ==
    /\ ListingAnswered
    /\ Len(data) = 2
    /\ \A i \in DOMAIN data : data[i].expired = "true"
    /\ outcome = "NoArtifacts"
    /\ exit_code = 1

C13_WitnessNone ==
    /\ ListingAnswered
    /\ data = <<>>
    /\ outcome = "NoArtifacts"

\* C14: a download that was answered and left the temporary archive at zero
\* bytes returns at once: nothing is extracted and no file is counted, the
\* temporary archive is gone, no temporary directory was made, the
\* destination's files are as before, and the loop is at the next artifact.
C14_EmptyArchive ==
    [][(/\ pc = "dz_request"
        /\ trace' = Append(trace, <<"archive", idx>>)
        /\ tmp_path'.kind = "empty")
       => /\ pc' = "Downloading"
          /\ idx' = idx + 1
          /\ extracted_files' = <<>>
          /\ total_files' = total_files
          /\ tmp_path'.state = "removed"
          /\ temp_extract_dir' = Absent
          /\ disk' = disk
          /\ exit_code' = NoCode
    ]_vars

C14_Witness ==
    /\ outcome = "Done" /\ exit_code = 0
    /\ Len(artifacts) = 2
    /\ Requested(1) = 1 /\ Requested(2) = 1
    /\ tmp_path.kind = "empty" /\ tmp_path.state = "removed"
    /\ temp_extract_dir = Absent
    /\ total_files = 1
    /\ \A p \in DOMAIN disk : disk[p][1] = 1

\* Files of the destination that came out of the archive of an artifact
\* before the one the loop is at.
FromEarlier == {p \in DOMAIN disk : disk[p][1] >= 1 /\ disk[p][1] < idx}

\* C15: no step, and in particular no step that fails on an artifact and ends
\* the process, removes or replaces a file that an earlier artifact of the run
\* put into the destination, with and without flattening.
C15_NoRollback ==
    [][\A p \in FromEarlier : p \in DOMAIN disk' /\ disk'[p] = disk[p]]_vars

C15_Witness ==
    /\ flatten
    /\ pc = "exit" /\ exit_code = 1
    /\ outcome = "ExtractionFailure"
    /\ idx = 2
    /\ LastEvent = <<"failed", 2>>
    /\ {<<"run.log">>, <<"run_1.log">>} \subseteq DOMAIN disk
    /\ disk[<<"run.log">>][1] = 1
    /\ disk[<<"run_1.log">>] = <<2, <<"run.log">>>>

C15_WitnessSubdirs ==
    /\ ~flatten
    /\ pc = "exit" /\ exit_code = 1
    /\ outcome = "ExtractionFailure"
    /\ idx = 2
    /\ DOMAIN disk = {<<"logs", "run.log">>, <<"build", "run.log">>}
    /\ disk[<<"logs", "run.log">>] = <<1, <<"run.log">>>>
    /\ tmp_path.entries = {<<"run.log">>, <<".env">>}

\* Positions of the listing response whose artifact is not flagged expired.
Kept == {i \in DOMAIN data : data[i].expired # "true"}

\* C16: the list list_artifacts returned holds one (name, url) pair for each
\* artifact of the response that is not flagged expired and no other pair,
\* each with the name and the url of its artifact, in the order of the
\* response; two artifacts of the same name give two pairs.
C16_ListingFiltered ==
    ListingAnswered =>
        /\ Len(artifacts) = Cardinality(Kept)
        /\ \A k \in DOMAIN artifacts :
            /\ artifacts[k][2] \in Kept
            /\ artifacts[k][1] = data[artifacts[k][2]].name
        /\ \A j, k \in DOMAIN artifacts :
            j < k => artifacts[j][2] < artifacts[k][2]

C16_Witness ==
    /\ ListingAnswered
    /\ Len(data) = 2
    /\ data[1].expired = "true"
    /\ data[2].expired = Absent
    /\ artifacts = << <<data[2].name, 2>> >>

C16_WitnessDuplicates ==
    /\ ListingAnswered
    /\ Len(data) = 2
    /\ data[1].name = "logs" /\ data[2].name = "logs"
    /\ artifacts = << <<"logs", 1>>, <<"logs", 2>> >>

\* C17: a notification is attempted on success, on a non-success conclusion
\* and on the poll timeout, and however the attempt ends the run goes on as if
\* it had succeeded: after the success notification the artifacts are listed,
\* after the other two the process ends with exit code 1.
C17_NotificationNeverFatal ==
    /\ (ListRequests > 0) => NotifyCount("success") = 1
    /\ outcome = "UnsuccessfulConclusion" => NotifyCount("failure") = 1
    /\ outcome = "Timeout" => NotifyCount("timeout") = 1
    /\ (pc = "exit" /\ outcome # "Interrupted") =>
        /\ NotifyCount("success") = 1 => ListRequests = 1
        /\ NotifyCount("failure") = 1 => exit_code = 1
        /\ NotifyCount("timeout") = 1 => exit_code = 1

\* Status fetches the poller has made.
PollFetches ==
    Cardinality({i \in DOMAIN trace :
                    trace[i][1] = "run" /\ trace[i][2] = "poll"})

\* ceil(t / p)
Ceil(t, p) == (t + p - 1) \div p

\* What the poller has done so far is what the claim allows.
PollerBounded ==
    /\ PollFetches <= Ceil(timeout, poll_interval) + 1
    /\ Sleeps <= Ceil(timeout, poll_interval)
    /\ pc = "Sleeping" => elapsed < timeout
    /\ (TimeoutChecks > 0 /\ elapsed >= timeout) =>
        /\ pc = "exit" /\ exit_code = 1
        /\ trace[Len(trace) - 1] = <<"timeout_check">>
        /\ LastEvent = <<"notify", "timeout">>
        /\ outcome \in {"Timeout", "NotificationFailure"}
    /\ NotifyCount("timeout") > 0 =>
            NotifyCount("timeout") = 1 /\ elapsed >= timeout
    /\ outcome = "Timeout" => NotifyCount("timeout") = 1
    /\ (PollFetches > 0 /\ pc \notin {"Waiting", "Sleeping", "exit"}) =>
            run.status = "completed"

\* A step of the poller returns the run exactly when the fetch it made found
\* the run completed, whatever the time is; a sleep lasts poll_interval (and
\* what the scheduler adds), the same at every round.
PollerSteps ==
    [][/\ (pc = "Waiting" /\ pc' # "exit") =>
            /\ LastEvent' \in {<<"run", "poll", "completed">>, <<"timeout_check">>}
            /\ pc' = "Verifying" <=> LastEvent' = <<"run", "poll", "completed">>
            /\ pc' = "Verifying" <=> run'.status = "completed"
            /\ pc' = "Sleeping" <=> LastEvent' = <<"timeout_check">>
       /\ (pc = "Sleeping" /\ pc' # "exit") =>
            /\ pc' = "Waiting"
            /\ clock' - clock \in poll_interval..(poll_interval + MaxLatency)
            /\ poll_interval' = poll_interval
    ]_vars

C18_WitnessLate ==
    /\ pc = "Verifying"
    /\ PollFetches = 2
    /\ clock > timeout
    /\ run.status = "completed"

\* Place of a request in the order of the run: the initial run fetch, the
\* polls, the listing, the archives; -1 for an event that is no request.
Rank(ev) ==
    CASE ev[1] = "run" /\ ev[2] = "initial" -> 0
      [] ev[1] = "run" /\ ev[2] = "poll" -> 1
      [] ev[1] = "list" -> 2
      [] ev[1] = "archive" -> 3
      [] OTHER -> -1

Requests == {i \in DOMAIN trace : Rank(trace[i]) >= 0}

\* C19: the requests of a run come in the order initial run fetch, polls,
\* listing, archives; there is one initial fetch and at most one listing, and
\* no archive without an answered listing; archives are requested in listing
\* order, each at most once, and only while the loop is at that artifact, so
\* that every artifact before it was downloaded and extracted or was skipped
\* because its subdirectory holds files.
C19_StrictSequence ==
    /\ \A i, j \in Requests : i < j => Rank(trace[i]) <= Rank(trace[j])
    /\ Requests # {} => Rank(trace[1]) = 0
    /\ Count(<<"run", "initial", "completed">>)
            + Count(<<"run", "initial", "incomplete">>)
            + Count(<<"run", "initial", "failed">>) <= 1
    /\ ListRequests <= 1
    /\ ArchiveRequests > 0 => ListingAnswered
    /\ \A i, j \in Requests :
        (i < j /\ Rank(trace[i]) = 3 /\ Rank(trace[j]) = 3)
            => trace[i][2] < trace[j][2]
    /\ \A i \in DOMAIN artifacts :
        Requested(i) > 0 =>
            /\ i <= idx
            /\ i = idx => pc \in (DzLocations \ {"dz_request"}) \cup {"exit"}
            /\ \A j \in 1..(i - 1) :
                \/ Requested(j) = 1
                \/ ~flatten /\ Occupied(artifacts[j][1])
    /\ pc \in DzLocations \ {"dz_request"} => Requested(idx) = 1
    /\ pc = "dz_request" => Requested(idx) = 0 /\ todo = {}

C19_Witness ==
    /\ outcome = "Done"
    /\ Sleeps >= 1
    /\ PollFetches = 2
    /\ ListRequests = 1
    /\ Len(artifacts) = 2
    /\ Requested(1) = 1 /\ Requested(2) = 1
    /\ LastEvent = <<"archive", 2>>

\* Files of the destination that came out of the archive of artifact i.
FilesOf(i) == {p \in DOMAIN disk : disk[p][1] = i}

\* C20: without flattening, when the first two listed artifacts have the same
\* name and the first has put a file into their subdirectory, the archive of
\* the second is never requested and no file of it is on disk, and the loop
\* passes the second without ending the run, which ends Done with exit code
\* 0 unless a later artifact fails; when flattening, a run that ends Done has requested the archive of
\* every listed artifact exactly once.
C20_DuplicateNameSkipped ==
    /\ (/\ ~flatten
        /\ Len(artifacts) >= 2
        /\ artifacts[1][1] = artifacts[2][1]
        /\ FilesOf(1) # {})
       => /\ Requested(1) = 1
          /\ Requested(2) = 0
          /\ FilesOf(2) = {}
          /\ \A p \in FilesOf(1) : p[1] = artifacts[1][1]
          /\ idx = 2 => pc \in {"Downloading", "exit"}
          /\ (idx = 2 /\ pc = "exit") => outcome = "Interrupted"
          /\ (pc = "exit" /\ idx > 2 /\ outcome # "Interrupted"
                /\ CountKind("failed") = 0)
                => outcome = "Done" /\ exit_code = 0
    /\ (flatten /\ outcome = "Done")
       => \A i \in DOMAIN artifacts : Requested(i) = 1

C20_Witness ==
    /\ ~flatten
    /\ outcome = "Done" /\ exit_code = 0
    /\ artifacts = << <<"logs", 1>>, <<"logs", 2>> >>
    /\ Requested(1) = 1 /\ Requested(2) = 0
    /\ DOMAIN disk = {<<"logs", "run.log">>}
    /\ disk[<<"logs", "run.log">>] = <<1, <<"run.log">>>>
    /\ total_files = 1

C20_WitnessFlatten ==
    /\ flatten
    /\ outcome = "Done"
    /\ artifacts = << <<"logs", 1>>, <<"logs", 2>> >>
    /\ FilesOf(1) # {} /\ FilesOf(2) # {}

\* Control locations before the loop over the listed artifacts.
BeforeDownloading ==
    {"main", "token", "Fetching", "Waiting", "Sleeping", "Verifying", "Listing"}

\* Endings of a run that never got to the loop over the listed artifacts.
EarlyFailures ==
    {"BadUrl", "MissingRunId", "MissingToken", "TransportFailure", "Timeout",
     "UnsuccessfulConclusion", "UnknownConclusion", "NoArtifacts",
     "NotificationFailure"}

\* Nothing under the destination comes from this run.
Untouched ==
    /\ FromArchive = {}
    /\ \A p \in DOMAIN disk : disk[p] = Before(p)
    /\ \E d \in InitDisks : dirs = d[1] /\ disk = d[2]

\* C21: no step taken before the loop over the listed artifacts changes the
\* directories or the files under the destination, so a run that fails in
\* Fetching, Waiting, Verifying or Listing leaves the destination as it was
\* before the invocation, and does not create it when it was absent.
C21_EarlyFailureLeavesDisk ==
    /\ [][(pc \in BeforeDownloading) => (dirs' = dirs /\ disk' = disk)]_vars
    /\ [](pc \in BeforeDownloading => Untouched)
    /\ []((pc = "exit" /\ ArchiveRequests = 0 /\ idx = 0) => Untouched)
    /\ []((pc = "exit" /\ outcome \in EarlyFailures \ {"TransportFailure"})
            => idx = 0 /\ ArchiveRequests = 0)
    /\ []((pc = "exit" /\ outcome = "TransportFailure" /\ ArchiveRequests = 0)
            => idx = 0)

C21_Witness ==
    /\ pc = "exit" /\ exit_code = 1
    /\ outcome = "NoArtifacts"
    /\ ListingAnswered
    /\ dirs = {} /\ disk = <<>>

C21_WitnessTimeout ==
    /\ pc = "exit" /\ exit_code = 1
    /\ outcome = "Timeout"
    /\ dirs = {<<>>, <<"logs">>}
    /\ DOMAIN disk = {<<"logs", "old.txt">>}

====
